---- MODULE Spec2Model ----
(***************************************************************************)
(* MediCare backend (Node + Express + Mongoose).  The repository holds     *)
(* several single-file variants of the same server:                        *)
(*   "v1"  src/server.js lines 1-397                                       *)
(*   "v2"  src/server.js lines 399-745                                     *)
(*   "v3"  src/unnamed/part_000 lines 1-248 (signup, list; cut off)        *)
(*   "v4"  src/unnamed/part_000 lines 249-514 (seed, login, booking)       *)
(* One variant runs against the document store; the variable `variant`     *)
(* records which.  Time is counted in minutes.  Document ids are the       *)
(* positions of the documents in their collection (documents are never     *)
(* deleted by the program), 0 is a well-formed id that matches no document.*)
(*                                                                         *)
(* `tokens` holds the JSON web tokens the server has signed and that some  *)
(* client still keeps: the server stores no token, so a token a client has *)
(* dropped is never seen again.  `resp` is the response of the request     *)
(* that was just answered; it is cleared before the next event.            *)
(* `appState` is the state of the browser page of src/unnamed/part_001:    *)
(* its users and who is logged in.  The page calls no server.              *)
(***************************************************************************)
EXTENDS Integers, Sequences, FiniteSets, TLC

VARIABLES variant, users, doctors, appointments, feedback,
          tokens, now, ticks, seedPc, regPending, resp, appState

vars == <<variant, users, doctors, appointments, feedback,
          tokens, now, ticks, seedPc, regPending, resp, appState>>

\* ---------------------------------------------------------------- bounds
MaxUsers == 2
MaxAppointments == 1
MaxTokens == 2
MaxTicks == 3
MaxCreatedDoctors == 1
MaxListed == 3
MaxFeedback == 2
MaxClientUsers == 4

\* ------------------------------------------------------- program constants
AccessTTL == 15
RefreshTTL == 10080
LegacyTTL == 60
OldTTL == 10080
MinPasswordLen == 6
MinNameLen == 2

ServerJs == {"v1", "v2"}
PartVariants == {"v3", "v4"}
Variants == {"v1", "v2", "v4"}

\* ------------------------------------------------------------ input sets
NoId == 0

\* String.prototype.toLowerCase on the e-mail inputs (schema option lowercase: true)
Lower(e) ==
  CASE e = "A@x.com" -> "a@x.com"
    [] e = "Admin@medicare.com" -> "admin@medicare.com"
    [] OTHER -> e

\* zod .email() / Joi .email() on the e-mail inputs
IsEmail(e) == e \in {"a@x.com", "A@x.com", "b@x.com", "admin@medicare.com", "Admin@medicare.com",
                     "john@example.com", "admin@example.com"}

\* bcrypt.hash / bcrypt.compare (the salt is not modelled: compare accepts exactly
\* the hashes of the same plaintext)
Hash(p) == <<"bcrypt", p>>
Compare(p, h) == h = Hash(p)

\* ---------------------------------------------------------------- responses
NoToken == [cls |-> "none", id |-> 0, role |-> "none", iat |-> 0, exp |-> 0]
NoResp == [op |-> "none", status |-> 0, msg |-> "", email |-> "", password |-> "",
           auth |-> NoToken, id |-> 0, access |-> NoToken, refresh |-> NoToken,
           data |-> [kind |-> "none"]]
NoData == [kind |-> "none"]

Reply(op, status, msg) == [NoResp EXCEPT !.op = op, !.status = status, !.msg = msg]

\* ---------------------------------------------------------------- persistence
UserIds == 1..Len(users)
\* a lookup that compares the e-mail as typed
FindUserByEmailExact(e) == {i \in UserIds : users[i].email = e}
\* User.findOne({ email }): the query value is cast by the schema (lowercase) in v1, v2
FindUserByEmail(e) ==
  LET q == IF variant \in ServerJs THEN Lower(e) ELSE e
  IN {i \in UserIds : users[i].email = q}
EmailTaken(e) == FindUserByEmail(e) # {}
\* the unique index on User.email
UniqueIndexRejects(e) == \E i \in UserIds : users[i].email = e

\* ---------------------------------------------------------------- tokens
\* jwt.sign(payload, secret, { expiresIn }): iat is the time of signing, exp = iat + expiresIn;
\* cls stands for the secret (JWT_SECRET: "access", JWT_REFRESH_SECRET: "refresh")
JwtSign(cls, id, role, ttl) ==
  [cls |-> cls, id |-> id, role |-> role, iat |-> now, exp |-> now + ttl]
SignAccess(id, role) == JwtSign("access", id, role, AccessTTL)
\* the refresh token's payload: { id, role } in v1, { id } in v2
RefreshRole(role) == IF variant = "v1" THEN role ELSE "undefined"
SignRefresh(id, role) == JwtSign("refresh", id, RefreshRole(role), RefreshTTL)

\* generateTokens(user)
generateTokens(id, role) == [accessToken |-> SignAccess(id, role), refreshToken |-> SignRefresh(id, role)]

\* jwt.verify(token, secret): the signature is valid exactly for the tokens the
\* server signed with that secret, and the token must not have reached its exp
\* an expiry test that still accepts the token at its exp
ExpiredLate(tok) == now > tok.exp
Expired(tok) == now >= tok.exp
\* a verification with one secret for both classes of token
JwtVerifyOneSecret(tok, cls) == tok \in tokens /\ ~Expired(tok)
\* jwt.verify(token, secret): the token was signed by this server with the secret
\* of the class (JWT_SECRET for access, JWT_REFRESH_SECRET for refresh) and has not run out
JwtVerify(tok, cls) == tok \in tokens /\ tok.cls = cls /\ ~Expired(tok)


\* ---------------------------------------------------------------- seed data
AdminEmail == "admin@medicare.com"
AdminPassword == "admin123"
LegacyPassword == "password123"

Doc(n, s, r) == [name |-> n, specialty |-> s, rating |-> r]
\* ratings are stored in tenths (4.8 is 48)
SeedDoctorsV1 ==
  << Doc("Dr. Sarah Johnson", "Cardiology", 48), Doc("Dr. Michael Chen", "Dermatology", 49),
     Doc("Dr. Emily Rodriguez", "Pediatrics", 47), Doc("Dr. James Wilson", "Orthopedics", 46),
     Doc("Dr. Lisa Anderson", "Neurology", 49) >>
SeedDoctorsV2 ==
  << Doc("Dr. Sarah Johnson", "Cardiology", 48), Doc("Dr. Michael Chen", "Dermatology", 49) >>
SeedDoctorsV4 == << Doc("Dr. Sarah Johnson", "Cardiology", 48) >>
SeedDoctors ==
  CASE variant = "v1" -> SeedDoctorsV1
    [] variant = "v2" -> SeedDoctorsV2
    [] OTHER -> SeedDoctorsV4

\* a User document; in v4 the boolean isAdmin is held as role "admin" / "patient"
UserDoc(n, e, h, r) == [name |-> n, email |-> e, password |-> h, role |-> r]
SeedAdmin == UserDoc("Admin", AdminEmail, Hash(AdminPassword), "admin")
SeedUsersV4 ==
  << UserDoc("John Doe", "john@example.com", Hash(LegacyPassword), "patient"),
     UserDoc("Admin User", "admin@example.com", Hash(LegacyPassword), "admin") >>
\* feedback ratings are held in tenths as well (5 is 50), so that 2.5 can be told from 2
SeedFeedbackV4 ==
  << [patient |-> "John Doe", rating |-> 50, comment |-> "Excellent service!"],
     [patient |-> "Jane Smith", rating |-> 40, comment |-> "Good experience"] >>

\* ------------------------------------------------------------------- Init
\* a user object of the browser client
ClientUser(id, name, email, phone, joinDate, password) ==
  [id |-> id, name |-> name, email |-> email, phone |-> phone, joinDate |-> joinDate,
   password |-> password]

\* appState.users as the page loads it
ClientUsers ==
  << ClientUser(1, "John Doe", "john@example.com", "555-0101", "2025-01-15", "password123"),
     ClientUser(2, "Jane Smith", "jane@example.com", "555-0102", "2025-01-20", "password123") >>

\* the value null of appState.currentUser
null == [id |-> 0]

\* the login part of appState as the page loads it
AppStateLoaded == [users |-> ClientUsers, isLoggedIn |-> FALSE, currentUser |-> null]

EmptyStore ==
  /\ appState = AppStateLoaded
  /\ users = <<>>
  /\ doctors = <<>>
  /\ appointments = <<>>
  /\ feedback = <<>>
  /\ tokens = {}
  /\ now = 0
  /\ ticks = 0
  /\ seedPc = "docs"
  /\ regPending = {}
  /\ resp = NoResp

Init == variant \in Variants /\ EmptyStore

\* no response is waiting to be observed
Idle == resp = NoResp

\* res.json(...) has been sent
ResponseSent ==
  /\ ~Idle
  /\ resp.msg # "process exited"   \* a process that has exited sends nothing
  /\ resp' = NoResp
  /\ UNCHANGED <<variant, appState, users, doctors, appointments, feedback, tokens, now, ticks, seedPc,
                 regPending>>

\* the tokens of a response that the client keeps for later requests; a response
\* without tokens leaves nothing to keep
Kept(sent, keep) == {t \in sent : t.cls \in keep}
Keeps == SUBSET {"access", "refresh"}

\* ------------------------------------------------------------------- seedData
\* a seed routine that inserts the doctors whatever the count
SeedCountDoctorsAlways ==
  /\ Idle
  /\ seedPc = "docs"
  /\ seedPc' = "insertDoctors"
  /\ UNCHANGED <<variant, appState, users, doctors, appointments, feedback, tokens, now, ticks, regPending,
                 resp>>

\* Doctor.countDocuments()
SeedCountDoctors ==
  /\ Idle
  /\ seedPc = "docs"
  /\ seedPc' = IF Len(doctors) = 0 THEN "insertDoctors" ELSE "users"
  /\ UNCHANGED <<variant, appState, users, doctors, appointments, feedback, tokens, now, ticks, regPending,
                 resp>>

\* Doctor.insertMany(seedDoctors)
SeedInsertDoctors ==
  /\ Idle
  /\ seedPc = "insertDoctors"
  /\ doctors' = doctors \o SeedDoctors
  /\ seedPc' = "users"
  /\ UNCHANGED <<variant, appState, users, appointments, feedback, tokens, now, ticks, regPending, resp>>

\* User.countDocuments()
SeedCountUsers ==
  /\ Idle
  /\ seedPc = "users"
  /\ seedPc' = IF Len(users) = 0 THEN "insertUsers"
               ELSE IF variant = "v4" THEN "feedback" ELSE "done"
  /\ UNCHANGED <<variant, appState, users, doctors, appointments, feedback, tokens, now, ticks, regPending,
                 resp>>

\* bcrypt.hash + User.create (v1, v2) / User.insertMany (v4); a duplicate key
\* makes the insert fail and the seed routine stop
SeedInsertUsers ==
  /\ Idle
  /\ seedPc = "insertUsers"
  /\ IF variant = "v4"
       THEN /\ users' = users \o SeedUsersV4
            /\ seedPc' = "feedback"
       ELSE IF UniqueIndexRejects(SeedAdmin.email)
         THEN /\ users' = users
              /\ seedPc' = "done"
         ELSE /\ users' = Append(users, SeedAdmin)
              /\ seedPc' = "done"
  /\ UNCHANGED <<variant, appState, doctors, appointments, feedback, tokens, now, ticks, regPending, resp>>

\* Feedback.countDocuments() (v4)
SeedCountFeedback ==
  /\ Idle
  /\ seedPc = "feedback"
  /\ seedPc' = IF Len(feedback) = 0 THEN "insertFeedback" ELSE "done"
  /\ UNCHANGED <<variant, appState, users, doctors, appointments, feedback, tokens, now, ticks, regPending,
                 resp>>

\* Feedback.insertMany (v4)
SeedInsertFeedback ==
  /\ Idle
  /\ seedPc = "insertFeedback"
  /\ feedback' = feedback \o SeedFeedbackV4
  /\ seedPc' = "done"
  /\ UNCHANGED <<variant, appState, users, doctors, appointments, tokens, now, ticks, regPending, resp>>

\* ------------------------------------------------------------------- clock
TickSteps == {1, AccessTTL - 1, RefreshTTL - AccessTTL}
Tick(d) ==
  /\ Idle
  /\ ticks < MaxTicks
  /\ now' = now + d
  /\ ticks' = ticks + 1
  /\ UNCHANGED <<variant, appState, users, doctors, appointments, feedback, tokens, seedPc, regPending,
                 resp>>

\* ------------------------------------------------------------------- register
RegBody(n, e, ph, p, cp) ==
  [name |-> n, email |-> e, phone |-> ph, password |-> p, confirmPassword |-> cp]
\* the request bodies tried on register; the phones are digit strings
RegisterBodies ==
  { RegBody("Ann", "a@x.com", "1234567890", "secret1", "secret1"),
    RegBody("Ann", "A@x.com", "1234567890", "secret1", "secret1"),
    RegBody("Bob", "b@x.com", "1234567890", "secret1", "secret1"),
    RegBody("Ann", "a@x.com", "1234567890", "secret1", "secret2"),
    RegBody("Ann", "not-an-email", "1234567890", "secret1", "secret1"),
    RegBody("Ann", "a@x.com", "1234567890", "abc", "abc"),
    RegBody("A", "a@x.com", "1234567890", "secret1", "secret1") }

\* phone: z.string().min(6) (v1), z.string().regex(/^[\d\+\-\s]{10,15}$/) (v2)
PhoneOk(ph) == IF variant = "v1" THEN Len(ph) >= 6 ELSE Len(ph) >= 10 /\ Len(ph) <= 15

\* registerSchema.parse(req.body)
registerSchema(b) ==
  /\ Len(b.name) >= MinNameLen
  /\ IsEmail(b.email)
  /\ PhoneOk(b.phone)
  /\ Len(b.password) >= MinPasswordLen
  /\ (variant = "v1" => Len(b.confirmPassword) >= MinPasswordLen)
  /\ b.password = b.confirmPassword

\* the response of register when User.findOne({ email }) finds a user
EmailExistsStatus == 400
EmailExistsMsg == IF variant = "v1" THEN "Email already registered" ELSE "Email already exists"

\* register up to the first write: parse, then User.findOne({ email }); status 0
\* stands for going on to bcrypt.hash and User.create
RegisterReply(b) ==
  IF ~registerSchema(b) THEN [status |-> 400, msg |-> "ZodError"]
  ELSE IF EmailTaken(b.email) THEN [status |-> EmailExistsStatus, msg |-> EmailExistsMsg]
  ELSE [status |-> 0, msg |-> ""]

\* POST /api/auth/register, first part
RegisterCheck(b) ==
  /\ Idle
  /\ variant \in ServerJs
  /\ LET r == RegisterReply(b)
     IN IF r.status # 0
          THEN /\ resp' = Reply("register", r.status, r.msg)
               /\ regPending' = regPending
          ELSE /\ Len(users) + Cardinality(regPending) < MaxUsers
               /\ regPending' = regPending \cup {b}
               /\ resp' = resp
  /\ UNCHANGED <<variant, appState, users, doctors, appointments, feedback, tokens, now, ticks, seedPc>>

\* the catch block of register on the duplicate-key error of User.create
DuplicateKeyStatus == IF variant = "v1" THEN 500 ELSE 400
DuplicateKeyMsg == IF variant = "v1" THEN "Server error" ELSE "E11000 duplicate key error"

\* the keys of registerSchema
RegisterKeys == {"name", "email", "phone", "password", "confirmPassword"}

\* a parse that lets unknown keys through
ParsePassthrough(b) == b

\* registerSchema.parse(req.body) on a body that passes: a z.object drops the
\* keys it does not declare
Parse(b) == [f \in DOMAIN b \cap RegisterKeys |-> b[f]]

\* the argument of User.create, before hashing: v1 picks name, email, phone and
\* password out of the parsed body; v2 passes the parsed body without confirmPassword
CreateArg(b) ==
  LET d == Parse(b)
  IN IF variant = "v1" THEN [f \in {"name", "email", "phone", "password"} |-> d[f]]
     ELSE [f \in DOMAIN d \ {"confirmPassword"} |-> d[f]]

\* role: { default: 'patient' } of the User schema
DefaultRole == "patient"

\* the document User.create stores: email lowercased by the schema, role defaulted
\* when the argument has none
NewUser(b) ==
  LET d == CreateArg(b)
  IN UserDoc(d.name, Lower(d.email), Hash(d.password),
             IF "role" \in DOMAIN d THEN d.role ELSE DefaultRole)

\* the user object of a register or login response: id, name and email, and the
\* role except in the register response of the first variant and in part_000
PublicUser(id, u, withRole) ==
  [kind |-> "user",
   user |-> IF withRole THEN [id |-> id, name |-> u.name, email |-> u.email, role |-> u.role]
            ELSE [id |-> id, name |-> u.name, email |-> u.email]]

RegisteredMsg == IF variant = "v1" THEN "Registered" ELSE "Registered successfully"

\* POST /api/auth/register, second part: bcrypt.hash, User.create, generateTokens, response
RegisterCreate(b, keep) ==
  /\ Idle
  /\ b \in regPending
  /\ regPending' = regPending \ {b}
  /\ IF UniqueIndexRejects(NewUser(b).email)
       THEN /\ keep = {}
            /\ resp' = Reply("register", DuplicateKeyStatus, DuplicateKeyMsg)
            /\ UNCHANGED <<users, tokens>>
       ELSE LET id == Len(users) + 1
                t == generateTokens(id, NewUser(b).role)
                kept == Kept({t.accessToken, t.refreshToken}, keep)
            IN /\ Cardinality(tokens \cup kept) <= MaxTokens
               /\ users' = Append(users, NewUser(b))
               /\ tokens' = tokens \cup kept
               /\ resp' = [Reply("register", 200, RegisteredMsg) EXCEPT
                             !.email = NewUser(b).email, !.password = b.password, !.id = id,
                             !.access = t.accessToken, !.refresh = t.refreshToken,
                             !.data = PublicUser(id, NewUser(b), variant = "v2")]
  /\ UNCHANGED <<variant, appState, doctors, appointments, feedback, now, ticks, seedPc>>

\* ------------------------------------------------------------------- login
LoginBody(e, p) == [email |-> e, password |-> p]
\* the request bodies tried on login
LoginBodies ==
  { LoginBody("a@x.com", "secret1"), LoginBody("A@x.com", "secret1"),
    LoginBody("a@x.com", AdminPassword), LoginBody("a@x.com", "abc"),
    LoginBody(AdminEmail, AdminPassword), LoginBody(AdminEmail, "secret1"),
    LoginBody("not-an-email", "secret1") }

\* loginSchema.parse(req.body)
loginSchema(email, password) == IsEmail(email) /\ Len(password) >= MinPasswordLen

\* a login that tells the caller which check failed
LoginReplyTelling(email, password) ==
  IF ~loginSchema(email, password) THEN [status |-> 400, msg |-> "ZodError"]
  ELSE IF FindUserByEmail(email) = {} THEN [status |-> 404, msg |-> "User not found"]
  ELSE LET u == users[CHOOSE i \in FindUserByEmail(email) : TRUE]
       IN IF ~Compare(password, u.password) THEN [status |-> 401, msg |-> "Invalid credentials"]
          ELSE [status |-> 200, msg |-> IF variant = "v1" THEN "Logged in" ELSE ""]

\* the status and body of POST /api/auth/login for a request, from the checks in
\* the order the handler makes them
LoginReply(email, password) ==
  IF ~loginSchema(email, password) THEN [status |-> 400, msg |-> "ZodError"]
  ELSE IF FindUserByEmail(email) = {} THEN [status |-> 401, msg |-> "Invalid credentials"]
  ELSE LET u == users[CHOOSE i \in FindUserByEmail(email) : TRUE]
       IN IF ~Compare(password, u.password) THEN [status |-> 401, msg |-> "Invalid credentials"]
          ELSE [status |-> 200, msg |-> IF variant = "v1" THEN "Logged in" ELSE ""]

\* POST /api/auth/login
Login(email, password, keep) ==
  /\ Idle
  /\ variant \in ServerJs
  /\ LET r == LoginReply(email, password)
     IN IF r.status # 200
          THEN /\ keep = {}
               /\ resp' = IF r.status = 400 THEN Reply("login", r.status, r.msg)
                            ELSE [Reply("login", r.status, r.msg) EXCEPT
                                    !.email = email, !.password = password]
               /\ tokens' = tokens
          ELSE LET id == CHOOSE i \in FindUserByEmail(email) : TRUE
                   t == generateTokens(id, users[id].role)
                   kept == Kept({t.accessToken, t.refreshToken}, keep)
               IN /\ Cardinality(tokens \cup kept) <= MaxTokens
                  /\ tokens' = tokens \cup kept
                  /\ resp' = [Reply("login", r.status, r.msg) EXCEPT
                                !.email = email, !.password = password, !.id = id,
                                !.access = t.accessToken, !.refresh = t.refreshToken,
                                !.data = PublicUser(id, users[id], TRUE)]
  /\ UNCHANGED <<variant, appState, users, doctors, appointments, feedback, now, ticks, seedPc, regPending>>

\* part_000 POST /api/login: no validation, one status for a failed lookup or
\* compare, one token jwt.sign({ id, isAdmin }, JWT_SECRET, { expiresIn: '1h' })
LegacyEmails == {"john@example.com", "admin@example.com", "a@x.com"}
LegacyPasswords == {LegacyPassword, "secret1"}
LegacyInvalidStatus == 400
SignLegacy(id, role) == JwtSign("access", id, role, LegacyTTL)
LegacyLoginReply(email, password) ==
  IF FindUserByEmail(email) = {} THEN [status |-> LegacyInvalidStatus, msg |-> "Invalid credentials"]
  ELSE LET u == users[CHOOSE i \in FindUserByEmail(email) : TRUE]
       IN IF ~Compare(password, u.password)
            THEN [status |-> LegacyInvalidStatus, msg |-> "Invalid credentials"]
            ELSE [status |-> 200, msg |-> ""]

LegacyLogin(email, password, keep) ==
  /\ Idle
  /\ variant = "v4"
  /\ LET r == LegacyLoginReply(email, password)
     IN IF r.status # 200
          THEN /\ keep = {}
               /\ resp' = [Reply("login", r.status, r.msg) EXCEPT
                             !.email = email, !.password = password]
               /\ tokens' = tokens
          ELSE LET id == CHOOSE i \in FindUserByEmail(email) : TRUE
                   t == SignLegacy(id, users[id].role)
                   kept == Kept({t}, keep)
               IN /\ Cardinality(tokens \cup kept) <= MaxTokens
                  /\ tokens' = tokens \cup kept
                  /\ resp' = [Reply("login", r.status, r.msg) EXCEPT
                                !.email = email, !.password = password, !.id = id, !.access = t,
                                !.data = PublicUser(id, users[id], FALSE)]
  /\ UNCHANGED <<variant, appState, users, doctors, appointments, feedback, now, ticks, seedPc, regPending>>

\* ------------------------------------------------------------------- refresh
\* tokens the server never signed
Forged ==
  [cls |-> "access", id |-> 1, role |-> "admin", iat |-> 0, exp |-> RefreshTTL * 2]
ForgedRefresh ==
  [cls |-> "refresh", id |-> 1, role |-> "admin", iat |-> 0, exp |-> RefreshTTL * 2]

MissingRefreshStatus == IF variant = "v1" THEN 400 ELSE 401
MissingRefreshMsg == IF variant = "v1" THEN "No refresh token provided" ELSE "No token"

\* the checks of the refresh endpoint on the submitted token
RefreshReply(tok) ==
  IF tok = NoToken THEN [status |-> MissingRefreshStatus, msg |-> MissingRefreshMsg]
  ELSE IF ~JwtVerify(tok, "refresh") THEN [status |-> 403, msg |-> "Invalid refresh token"]
  ELSE [status |-> 200, msg |-> ""]

\* the access token the refresh endpoint signs from the verified payload:
\* { id: payload.id, role: payload.role }
RefreshedAccess(payload) == SignAccess(payload.id, payload.role)

\* a refresh endpoint that rotates: the submitted token is revoked and a new
\* refresh token is returned with the access token
RefreshRotating(tok, keep) ==
  /\ Idle
  /\ variant \in ServerJs
  /\ LET r == RefreshReply(tok)
     IN IF r.status # 200
          THEN /\ keep = {}
               /\ resp' = Reply("refresh", r.status, r.msg)
               /\ tokens' = tokens
          ELSE LET t == generateTokens(tok.id, tok.role)
                   kept == Kept({t.accessToken, t.refreshToken}, keep)
               IN /\ Cardinality((tokens \ {tok}) \cup kept) <= MaxTokens
                  /\ tokens' = (tokens \ {tok}) \cup kept
                  /\ resp' = [Reply("refresh", 200, "") EXCEPT
                                !.auth = tok, !.id = tok.id, !.access = t.accessToken,
                                !.refresh = t.refreshToken]
  /\ UNCHANGED <<variant, appState, users, doctors, appointments, feedback, now, ticks, seedPc, regPending>>

\* POST /api/auth/refresh
Refresh(tok, keep) ==
  /\ Idle
  /\ variant \in ServerJs
  /\ LET r == RefreshReply(tok)
     IN IF r.status # 200
          THEN /\ keep = {}
               /\ resp' = Reply("refresh", r.status, r.msg)
               /\ tokens' = tokens
          ELSE LET a == RefreshedAccess(tok)
                   kept == Kept({a}, keep)
               IN /\ Cardinality(tokens \cup kept) <= MaxTokens
                  /\ tokens' = tokens \cup kept
                  /\ resp' = [Reply("refresh", 200, "") EXCEPT
                                !.auth = tok, !.id = tok.id, !.access = a]
  /\ UNCHANGED <<variant, appState, users, doctors, appointments, feedback, now, ticks, seedPc, regPending>>

\* ------------------------------------------------------------------- middleware
NoHeader == [scheme |-> "none", tok |-> NoToken]
Bearer(t) == [scheme |-> "Bearer", tok |-> t]
\* the Authorization headers tried: none, or Bearer with a kept or a forged token
Headers == {NoHeader} \cup {Bearer(t) : t \in tokens \cup {Forged}}

\* authenticate: status 200 stands for next() with req.user = hdr.tok
authenticate(hdr) ==
  IF hdr.scheme # "Bearer"
    THEN [status |-> 401, msg |-> IF variant = "v1" THEN "Unauthorized" ELSE "Access denied"]
  ELSE IF ~JwtVerify(hdr.tok, "access")
    THEN [status |-> 401, msg |-> "Invalid or expired token"]
  ELSE [status |-> 200, msg |-> ""]

\* a role test that lets every authenticated caller through
adminOnlyOpen(payload) == [status |-> 200, msg |-> ""]

\* adminOnly, after authenticate has set req.user
adminOnly(payload) ==
  IF payload.role # "admin" THEN [status |-> 403, msg |-> "Admin access required"]
  ELSE [status |-> 200, msg |-> ""]

\* the chain authenticate, adminOnly in front of the admin routes
AdminGate(hdr) ==
  IF authenticate(hdr).status # 200 THEN authenticate(hdr) ELSE adminOnly(hdr.tok)

\* a header that is the token alone, without the word Bearer
Raw(t) == [scheme |-> "raw", tok |-> t]
\* every form of header tried: none, Bearer <token>, <token>
AllHeaders == Headers \cup {Raw(t) : t \in tokens}

\* part_000 (second server) authenticate: the token is the second word of the
\* header, whatever the first; a header of one word has none
LegacyAuthenticate(hdr) ==
  IF hdr.scheme \in {"none", "raw"} THEN [status |-> 401, msg |-> "No token provided"]
  ELSE IF ~JwtVerify(hdr.tok, "access") THEN [status |-> 401, msg |-> "Invalid token"]
  ELSE [status |-> 200, msg |-> ""]

\* ------------------------------------------------------------------- booking
\* a doctorId that is not 24 characters long
BadId == -1
\* the doctor the valid bodies book
BookedDoctor == 2
MinTimeLen == 3
MinSymptomsLenV1 == 5
MinSymptomsLenV2 == 10

BookBody(d, dt, tm, sy, ph) ==
  [doctorId |-> d, date |-> dt, time |-> tm, symptoms |-> sy, phone |-> ph]
\* the request bodies tried on book appointment
BookBodies ==
  { BookBody(BookedDoctor, "2025-06-01", "09:30", "fever for 3 days", "9999999999"),
    BookBody(NoId, "2025-06-01", "09:30", "fever for 3 days", "9999999999"),
    BookBody(BadId, "2025-06-01", "09:30", "fever for 3 days", "9999999999"),
    BookBody(BookedDoctor, "06/01/2025", "09:30", "fever for 3 days", "9999999999"),
    BookBody(BookedDoctor, "2025-06-01", "9am", "cough", "9999999999") }

DoctorIds == 1..Len(doctors)
AppointmentIds == 1..Len(appointments)

\* new Date(date) of the dates tried, as days since 2025-05-31; 0 for a string
\* that is not YYYY-MM-DD
DateRank(date) ==
  CASE date = "2025-06-01" -> 1
    [] date = "2025-06-02" -> 2
    [] OTHER -> 0
\* /^\d{4}-\d{2}-\d{2}$/ on the dates tried
DateOk(date) == DateRank(date) > 0
\* /^([0-1]?[0-9]|2[0-3]):[0-5][0-9]$/ on the times of BookBodies
TimeRegexOk(time) == time = "09:30"

\* appointmentZ (v1) / appointmentSchema (v2) .parse(req.body)
appointmentZ(b) ==
  /\ b.doctorId # BadId
  /\ DateOk(b.date)
  /\ IF variant = "v1" THEN Len(b.time) >= MinTimeLen ELSE TimeRegexOk(b.time)
  /\ Len(b.symptoms) >= (IF variant = "v1" THEN MinSymptomsLenV1 ELSE MinSymptomsLenV2)
  /\ PhoneOk(b.phone)

\* the status of the created Appointment: v1 passes 'confirmed'; v2 passes none
\* and the schema default applies
DefaultStatus == "pending"
BookedStatus == IF variant = "v1" THEN "confirmed" ELSE DefaultStatus

\* the document Appointment.create stores
NewAppointment(doctorId, patientId, date) ==
  [doctor |-> doctorId, doctorName |-> doctors[doctorId].name,
   specialty |-> doctors[doctorId].specialty,
   patient |-> patientId, patientName |-> users[patientId].name,
   date |-> date, status |-> BookedStatus]

\* Doctor.findById(doctorId) finds a document
DoctorFound(doctorId) == doctorId \in DoctorIds

\* the response when User.findById(req.user.id) finds nothing: a 404 in v1; in
\* v2 reading .name of null throws and the catch block answers
PatientMissingStatus == IF variant = "v1" THEN 404 ELSE 400

\* a booking route that refuses a slot that is taken
BookReplySlotChecked(hdr, b) ==
  IF authenticate(hdr).status # 200 THEN authenticate(hdr)
  ELSE IF ~appointmentZ(b) THEN [status |-> 400, msg |-> "ZodError"]
  ELSE IF ~DoctorFound(b.doctorId) THEN [status |-> 404, msg |-> "Doctor not found"]
  ELSE IF hdr.tok.id \notin UserIds
    THEN [status |-> PatientMissingStatus, msg |-> "Patient not found"]
  ELSE IF \E i \in AppointmentIds : /\ appointments[i].doctor = b.doctorId
                                    /\ appointments[i].date = b.date
    THEN [status |-> 409, msg |-> "Slot taken"]
  ELSE [status |-> 200, msg |-> "Appointment booked"]

\* the checks of book appointment in the order the route makes them
BookReply(hdr, b) ==
  IF authenticate(hdr).status # 200 THEN authenticate(hdr)
  ELSE IF ~appointmentZ(b) THEN [status |-> 400, msg |-> "ZodError"]
  ELSE IF ~DoctorFound(b.doctorId) THEN [status |-> 404, msg |-> "Doctor not found"]
  ELSE IF hdr.tok.id \notin UserIds
    THEN [status |-> PatientMissingStatus, msg |-> "Patient not found"]
  ELSE [status |-> 200, msg |-> "Appointment booked"]

\* POST /api/appointments, in a run that stops at max appointments
BookUpTo(hdr, b, max) ==
  /\ Idle
  /\ variant \in ServerJs
  /\ LET r == BookReply(hdr, b)
     IN IF r.status # 200
          THEN /\ resp' = Reply("book", r.status, r.msg)
               /\ appointments' = appointments
          ELSE /\ Len(appointments) < max
               /\ appointments' =
                    Append(appointments, NewAppointment(b.doctorId, hdr.tok.id, b.date))
               /\ resp' = [Reply("book", r.status, r.msg) EXCEPT
                             !.auth = hdr, !.id = b.doctorId,
                             !.data = [kind |-> "appointment", id |-> Len(appointments) + 1,
                                       appointment |->
                                         NewAppointment(b.doctorId, hdr.tok.id, b.date)]]
  /\ UNCHANGED <<variant, appState, users, doctors, feedback, tokens, now, ticks, seedPc, regPending>>

Book(hdr, b) == BookUpTo(hdr, b, MaxAppointments)

\* ---------------------------------------------------------- my appointments
\* a query without the patient filter
AllIds(id) == AppointmentIds

\* Appointment.find({ patient: req.user.id }), as _id values
MineIds(id) == {i \in AppointmentIds : appointments[i].patient = id}

\* .sort({ date: -1, createdAt: -1 }) (v1) and .sort({ date: -1 }) (v2) put a
\* before b; createdAt grows with the _id; v2 leaves documents of one date in
\* whatever order the store yields them
SortsBefore(a, b) ==
  \/ DateRank(appointments[a].date) > DateRank(appointments[b].date)
  \/ /\ DateRank(appointments[a].date) = DateRank(appointments[b].date)
     /\ variant = "v2" \/ a > b

\* the sequences the query of list mine can yield
ListOrders(id) ==
  LET S == MineIds(id)
      n == Cardinality(S)
  IN {s \in [1..n -> S] :
        /\ \A i, j \in 1..n : i # j => s[i] # s[j]
        /\ \A i, j \in 1..n : i < j => SortsBefore(s[i], s[j])}

\* GET /api/appointments
ListMine(hdr) ==
  /\ Idle
  /\ variant \in ServerJs
  /\ IF authenticate(hdr).status # 200
       THEN resp' = Reply("list", authenticate(hdr).status, authenticate(hdr).msg)
       ELSE \E s \in ListOrders(hdr.tok.id) :
              resp' = [Reply("list", 200, "") EXCEPT
                         !.auth = hdr, !.data = [kind |-> "list", items |-> s]]
  /\ UNCHANGED <<variant, appState, users, doctors, appointments, feedback, tokens, now, ticks, seedPc,
                 regPending>>

\* the request bodies tried on book before listing: two dates
ListBodies ==
  { BookBody(BookedDoctor, "2025-06-01", "09:30", "fever for 3 days", "9999999999"),
    BookBody(BookedDoctor, "2025-06-02", "09:30", "fever for 3 days", "9999999999") }

\* part_000 POST /api/appointments: the body carries doctorName and specialty, no
\* doctor is looked up, and patientName is req.user.name, which the token does not hold
LegacyDoctorNames == {"Dr. Sarah Johnson", "Dr. Nobody"}
LegacyAppointment(payload, doctorName, date) ==
  [doctor |-> NoId, doctorName |-> doctorName, specialty |-> "Cardiology",
   patient |-> payload.id, patientName |-> "undefined", date |-> date, status |-> "Confirmed"]
\* AppointmentSchema: patientName is { type: String, required: true }
LegacySchemaAccepts(doc) == doc.patientName # "undefined"

LegacyBookReply(hdr, doctorName) ==
  IF LegacyAuthenticate(hdr).status # 200 THEN LegacyAuthenticate(hdr)
  ELSE IF ~LegacySchemaAccepts(LegacyAppointment(hdr.tok, doctorName, "2025-06-01"))
    THEN [status |-> 500, msg |-> "Server error"]
  ELSE [status |-> 200, msg |-> ""]

LegacyBook(hdr, doctorId, doctorName) ==
  /\ Idle
  /\ variant = "v4"
  /\ LET r == LegacyBookReply(hdr, doctorName)
         doc == LegacyAppointment(hdr.tok, doctorName, "2025-06-01")
     IN IF r.status # 200
          THEN /\ resp' = [Reply("book", r.status, r.msg) EXCEPT !.auth = hdr, !.id = doctorId]
               /\ appointments' = appointments
          ELSE /\ Len(appointments) < MaxAppointments
               /\ appointments' = Append(appointments, doc)
               /\ resp' = [Reply("book", r.status, r.msg) EXCEPT
                             !.auth = hdr, !.id = doctorId,
                             !.data = [kind |-> "appointment", id |-> Len(appointments) + 1,
                                       appointment |-> doc]]
  /\ UNCHANGED <<variant, appState, users, doctors, feedback, tokens, now, ticks, seedPc, regPending>>

\* ------------------------------------------------------------------- cancel
\* an ownership test that forgets the admin
CancelDeniedOwnerOnly(appt, payload) == appt.patient # payload.id

\* the ownership test of the cancel route: true when the caller may not cancel
CancelDenied(appt, payload) == appt.patient # payload.id /\ payload.role # "admin"

\* a cancellation that also drops the copied doctor name
CancelledUnlinked(appt) == [appt EXCEPT !.status = "cancelled", !.doctorName = ""]

\* what cancel writes: appt.status = 'cancelled'; appt.save()
Cancelled(appt) == [appt EXCEPT !.status = "cancelled"]

\* a cancel route that refuses an appointment that is already cancelled
CancelReplyOnce(hdr, id) ==
  IF authenticate(hdr).status # 200 THEN authenticate(hdr)
  ELSE IF id \notin AppointmentIds THEN [status |-> 404, msg |-> "Appointment not found"]
  ELSE IF CancelDenied(appointments[id], hdr.tok) THEN [status |-> 403, msg |-> "Not allowed"]
  ELSE IF appointments[id].status = "cancelled" THEN [status |-> 400, msg |-> "Already cancelled"]
  ELSE [status |-> 200, msg |-> "Appointment cancelled"]

\* the checks of the cancel route in the order it makes them
CancelReply(hdr, id) ==
  IF authenticate(hdr).status # 200 THEN authenticate(hdr)
  ELSE IF id \notin AppointmentIds THEN [status |-> 404, msg |-> "Appointment not found"]
  ELSE IF CancelDenied(appointments[id], hdr.tok) THEN [status |-> 403, msg |-> "Not allowed"]
  ELSE [status |-> 200, msg |-> "Appointment cancelled"]

\* PATCH /api/appointments/:id/cancel (v1); the response record keeps the document
\* findById returned next to the one sent back
Cancel(hdr, id) ==
  /\ Idle
  /\ variant = "v1"
  /\ LET r == CancelReply(hdr, id)
     IN IF r.status # 200
          THEN /\ resp' = Reply("cancel", r.status, r.msg)
               /\ appointments' = appointments
          ELSE /\ appointments' = [appointments EXCEPT ![id] = Cancelled(appointments[id])]
               /\ resp' = [Reply("cancel", r.status, r.msg) EXCEPT
                             !.auth = hdr, !.id = id,
                             !.data = [kind |-> "appointment", id |-> id,
                                       found |-> appointments[id],
                                       appointment |-> Cancelled(appointments[id])]]
  /\ UNCHANGED <<variant, appState, users, doctors, feedback, tokens, now, ticks, seedPc, regPending>>

\* ------------------------------------------------------------------- admin routes
RECURSIVE Reverse(_)
Reverse(q) == IF q = <<>> THEN <<>> ELSE Append(Reverse(Tail(q)), Head(q))

RECURSIVE PatientsWithPassword(_)
\* a listing that leaves the password field in
PatientsWithPassword(q) ==
  IF q = <<>> THEN <<>>
  ELSE IF Head(q).role = "patient" THEN <<Head(q)>> \o PatientsWithPassword(Tail(q))
  ELSE PatientsWithPassword(Tail(q))

RECURSIVE Patients(_)
\* User.find({ role: 'patient' }).select('-password')
Patients(q) ==
  IF q = <<>> THEN <<>>
  ELSE LET u == Head(q)
           rest == Patients(Tail(q))
       IN IF u.role = "patient"
            THEN <<[name |-> u.name, email |-> u.email, role |-> u.role]>> \o rest
            ELSE rest

AdminReadEndpoints ==
  IF variant = "v1" THEN {"stats", "appointments", "users"}
  ELSE {"stats", "appointments", "users", "feedback"}

\* statistics that count every user, the admin included
AdminDataAllUsers(ep) ==
  [kind |-> "stats", totalUsers |-> Len(users),
   totalAppointments |-> Len(appointments), totalDoctors |-> Len(doctors)]

\* what the handler body of an admin GET route sends
AdminData(ep) ==
  CASE ep = "stats" ->
         [kind |-> "stats", totalUsers |-> Len(Patients(users)),
          totalAppointments |-> Len(appointments), totalDoctors |-> Len(doctors)]
    [] ep = "appointments" -> [kind |-> "list", items |-> Reverse(appointments)]
    [] ep = "users" ->
         [kind |-> "list",
          items |-> IF variant = "v1" THEN Reverse(Patients(users)) ELSE Patients(users)]
    [] OTHER -> [kind |-> "list", items |-> Reverse(feedback)]

\* GET /api/admin/stats, /api/admin/appointments, /api/admin/users, /api/admin/feedback;
\* a refusal is sent by the middleware in front of the route, whatever the route
AdminRead(hdr, ep) ==
  /\ Idle
  /\ variant \in ServerJs
  /\ ep \in AdminReadEndpoints
  /\ LET g == AdminGate(hdr)
     IN IF g.status # 200
          THEN resp' = Reply("adminGate", g.status, g.msg)
          ELSE resp' = [Reply(ep, 200, "") EXCEPT !.auth = hdr, !.data = AdminData(ep)]
  /\ UNCHANGED <<variant, appState, users, doctors, appointments, feedback, tokens, now, ticks, seedPc,
                 regPending>>

DoctorNames == {"", "Dr. New"}
DoctorSpecialties == {"Cardiology"}
\* doctorSchema: rating: { type: Number, default: 4.5 }, in tenths
DefaultRating == 45

\* the checks in front of Doctor.create
CreateDoctorReply(hdr, name, specialty) ==
  IF AdminGate(hdr).status # 200 THEN AdminGate(hdr)
  ELSE IF name = "" \/ specialty = "" THEN [status |-> 400, msg |-> "name & specialty required"]
  ELSE [status |-> 200, msg |-> ""]

\* a body without rating, and the ratings tried, in tenths: 3, 9, -1
Unrated == -1000
DoctorRatings == {Unrated, 30, 90, -10}

\* the rating Doctor.create stores: the one of the body, which the schema of v1
\* does not bound, or the default
StoredRating(rating) == IF rating = Unrated THEN DefaultRating ELSE rating

\* POST /api/admin/doctors (v1)
CreateDoctorRated(hdr, name, specialty, rating) ==
  /\ Idle
  /\ variant = "v1"
  /\ LET r == CreateDoctorReply(hdr, name, specialty)
     IN IF r.status # 200
          THEN /\ resp' = Reply(IF AdminGate(hdr).status # 200 THEN "adminGate"
                                ELSE "createDoctor", r.status, r.msg)
               /\ doctors' = doctors
          ELSE /\ Len(doctors) < Len(SeedDoctorsV1) + MaxCreatedDoctors
               /\ doctors' = Append(doctors, Doc(name, specialty, StoredRating(rating)))
               /\ resp' = [Reply("createDoctor", 200, "") EXCEPT
                             !.auth = hdr,
                             !.data = [kind |-> "doctor", id |-> Len(doctors) + 1,
                                       doctor |-> Doc(name, specialty, StoredRating(rating))]]
  /\ UNCHANGED <<variant, appState, users, appointments, feedback, tokens, now, ticks, seedPc, regPending>>

\* the same with a body that carries no rating
CreateDoctor(hdr, name, specialty) == CreateDoctorRated(hdr, name, specialty, Unrated)

\* ------------------------------------------------------------------- part_000
\* part_000 (first server) auth: the token is the header with 'Bearer ' removed
\* where it occurs, so a header that is the token alone is taken as it is
OldAuth(hdr) ==
  IF hdr.scheme = "none" THEN [status |-> 401, msg |-> "No token"]
  ELSE IF ~JwtVerify(hdr.tok, "access") THEN [status |-> 401, msg |-> "Invalid token"]
  ELSE [status |-> 200, msg |-> ""]

\* the request bodies tried on signup (first server) and register (second server);
\* neither reads confirmPassword, and "" stands for a field that is missing
PartBodies ==
  { RegBody("Ann", "a@x.com", "1234567890", "secret1", ""),
    RegBody("Ann", "a@x.com", "1234567890", "abc", ""),
    RegBody("Ann", "not-an-email", "1234567890", "secret1", ""),
    RegBody("", "b@x.com", "1234567890", "secret1", "") }

\* signupSchema.validate(req.body) (first server)
signupSchema(b) ==
  /\ b.name # ""
  /\ IsEmail(b.email)
  /\ b.phone # ""
  /\ Len(b.password) >= MinPasswordLen

\* the Mongoose UserSchema of part_000: name, email, phone, password required
PartUserSchemaAccepts(b) == b.name # "" /\ b.email # "" /\ b.phone # "" /\ b.password # ""

\* signup / register up to the first write; status 0 stands for going on
PartRegisterReply(b) ==
  IF variant = "v3" /\ ~signupSchema(b) THEN [status |-> 400, msg |-> "ValidationError"]
  ELSE IF EmailTaken(b.email)
    THEN [status |-> 400,
          msg |-> IF variant = "v3" THEN "User already exists" ELSE "Email already exists"]
  ELSE [status |-> 0, msg |-> ""]

\* POST /api/auth/signup (first server), POST /api/register (second server), first part
PartRegisterCheck(b) ==
  /\ Idle
  /\ variant \in PartVariants
  /\ LET r == PartRegisterReply(b)
     IN IF r.status # 0
          THEN /\ resp' = [Reply("register", r.status, r.msg) EXCEPT
                             !.email = b.email, !.password = b.password]
               /\ regPending' = regPending
          ELSE /\ Len(users) + Cardinality(regPending) < MaxUsers
               /\ regPending' = regPending \cup {b}
               /\ resp' = resp
  /\ UNCHANGED <<variant, appState, users, doctors, appointments, feedback, tokens, now, ticks, seedPc>>

\* the token of part_000: { id } for 7 days (first server), { id, isAdmin } for
\* an hour (second server)
SignPart(id, role) ==
  IF variant = "v3" THEN JwtSign("access", id, "undefined", OldTTL) ELSE SignLegacy(id, role)

\* second part: hash (pre-save hook in the first server, bcrypt.hash in the
\* second), user.save(), jwt.sign, response
PartRegisterSave(b, keep) ==
  /\ Idle
  /\ variant \in PartVariants
  /\ b \in regPending
  /\ regPending' = regPending \ {b}
  /\ IF ~PartUserSchemaAccepts(b) \/ UniqueIndexRejects(b.email)
       THEN /\ keep = {}
            /\ resp' = [Reply("register", 500, "Server error") EXCEPT
                          !.email = b.email, !.password = b.password]
            /\ UNCHANGED <<users, tokens>>
       ELSE LET id == Len(users) + 1
                t == SignPart(id, "patient")
                kept == Kept({t}, keep)
            IN /\ Cardinality(tokens \cup kept) <= MaxTokens
               /\ users' = Append(users, UserDoc(b.name, b.email, Hash(b.password), "patient"))
               /\ tokens' = tokens \cup kept
               /\ resp' = [Reply("register", 200, "") EXCEPT
                             !.email = b.email, !.password = b.password, !.id = id,
                             !.access = t,
                             !.data = PublicUser(id, UserDoc(b.name, b.email, Hash(b.password),
                                                             "patient"), FALSE)]
  /\ UNCHANGED <<variant, appState, doctors, appointments, feedback, now, ticks, seedPc>>

RECURSIVE OfPatient(_, _)
\* Appointment.find({ patient: id }), in the order of the collection
OfPatient(q, id) ==
  IF q = <<>> THEN <<>>
  ELSE IF Head(q).patient = id THEN <<Head(q)>> \o OfPatient(Tail(q), id)
  ELSE OfPatient(Tail(q), id)

\* GET /api/appointments (first server)
OldListMine(hdr) ==
  /\ Idle
  /\ variant = "v3"
  /\ IF OldAuth(hdr).status # 200
       THEN resp' = Reply("list", OldAuth(hdr).status, OldAuth(hdr).msg)
       ELSE resp' = [Reply("list", 200, "") EXCEPT
                       !.auth = hdr,
                       !.data = [kind |-> "list", items |-> OfPatient(appointments, hdr.tok.id)]]
  /\ UNCHANGED <<variant, appState, users, doctors, appointments, feedback, tokens, now, ticks, seedPc,
                 regPending>>

\* ------------------------------------------------------------------- list doctors
\* the characters of the strings that occur as names, specialties and queries
Chars(s) ==
  CASE s = "Dr. Sarah Johnson" -> <<"D", "r", ".", " ", "S", "a", "r", "a", "h", " ", "J", "o", "h", "n", "s", "o", "n">>
    [] s = "Dr. Michael Chen" -> <<"D", "r", ".", " ", "M", "i", "c", "h", "a", "e", "l", " ", "C", "h", "e", "n">>
    [] s = "Dr. Emily Rodriguez" -> <<"D", "r", ".", " ", "E", "m", "i", "l", "y", " ", "R", "o", "d", "r", "i", "g", "u", "e", "z">>
    [] s = "Dr. James Wilson" -> <<"D", "r", ".", " ", "J", "a", "m", "e", "s", " ", "W", "i", "l", "s", "o", "n">>
    [] s = "Dr. Lisa Anderson" -> <<"D", "r", ".", " ", "L", "i", "s", "a", " ", "A", "n", "d", "e", "r", "s", "o", "n">>
    [] s = "Dr. Robert Martinez" -> <<"D", "r", ".", " ", "R", "o", "b", "e", "r", "t", " ", "M", "a", "r", "t", "i", "n", "e", "z">>
    [] s = "Dr. Raj Kankane" -> <<"D", "r", ".", " ", "R", "a", "j", " ", "K", "a", "n", "k", "a", "n", "e">>
    [] s = "Dr. New" -> <<"D", "r", ".", " ", "N", "e", "w">>
    [] s = "Cardiology" -> <<"C", "a", "r", "d", "i", "o", "l", "o", "g", "y">>
    [] s = "Dermatology" -> <<"D", "e", "r", "m", "a", "t", "o", "l", "o", "g", "y">>
    [] s = "Pediatrics" -> <<"P", "e", "d", "i", "a", "t", "r", "i", "c", "s">>
    [] s = "Orthopedics" -> <<"O", "r", "t", "h", "o", "p", "e", "d", "i", "c", "s">>
    [] s = "Neurology" -> <<"N", "e", "u", "r", "o", "l", "o", "g", "y">>
    [] s = "General Medicine" -> <<"G", "e", "n", "e", "r", "a", "l", " ", "M", "e", "d", "i", "c", "i", "n", "e">>
    [] s = "cardiology" -> <<"c", "a", "r", "d", "i", "o", "l", "o", "g", "y">>
    [] s = "john" -> <<"j", "o", "h", "n">>
    [] s = "JOHN" -> <<"J", "O", "H", "N">>
    [] s = "j.hn" -> <<"j", ".", "h", "n">>
    [] s = "cardio" -> <<"c", "a", "r", "d", "i", "o">>
    [] s = "(" -> <<"(">>
    [] OTHER -> <<>>

\* toLowerCase of one character
LowerChar(c) ==
  CASE c = "A" -> "a"
    [] c = "B" -> "b" [] c = "C" -> "c" [] c = "D" -> "d" [] c = "E" -> "e"
    [] c = "F" -> "f" [] c = "G" -> "g" [] c = "H" -> "h" [] c = "I" -> "i"
    [] c = "J" -> "j" [] c = "K" -> "k" [] c = "L" -> "l" [] c = "M" -> "m"
    [] c = "N" -> "n" [] c = "O" -> "o" [] c = "P" -> "p" [] c = "Q" -> "q"
    [] c = "R" -> "r" [] c = "S" -> "s" [] c = "T" -> "t" [] c = "U" -> "u"
    [] c = "V" -> "v" [] c = "W" -> "w" [] c = "X" -> "x" [] c = "Y" -> "y"
    [] c = "Z" -> "z"
    [] OTHER -> c

\* String.prototype.toLowerCase
LowerStr(t) == [i \in 1..Len(t) |-> LowerChar(t[i])]

\* String.prototype.includes
Includes(t, n) == \E k \in 0..(Len(t) - Len(n)) : SubSeq(t, k + 1, k + Len(n)) = n

RECURSIVE MatchAt(_, _)
\* the pattern p, made of characters and of '.', matches a prefix of t, letters
\* compared without case ($options: 'i')
MatchAt(p, t) ==
  IF p = <<>> THEN TRUE
  ELSE IF t = <<>> THEN FALSE
  ELSE /\ Head(p) = "." \/ LowerChar(Head(p)) = LowerChar(Head(t))
       /\ MatchAt(Tail(p), Tail(t))

\* the pattern compiles: of the patterns tried, '(' does not
RegexValid(p) == \A i \in DOMAIN p : p[i] # "("

\* { $regex: p, $options: 'i' } on the text t: p is a regular expression, found
\* anywhere in t unless it starts with '^'
RegexFind(p, t) ==
  IF p # <<>> /\ Head(p) = "^" THEN MatchAt(Tail(p), t)
  ELSE \E k \in 0..Len(t) : MatchAt(p, SubSeq(t, k + 1, Len(t)))

\* the query parameters tried; "" stands for a parameter that is not supplied
SpecialtyParams == {"", "Cardiology", "cardiology"}
SearchParams == {"", "john", "JOHN", "j.hn", "cardio", "("}

\* Doctor.find(q) with q.specialty and q.name set when the parameter is supplied
FindDoctors(specialty, search) ==
  SelectSeq(doctors, LAMBDA d :
    /\ specialty # "" => d.specialty = specialty
    /\ search # "" => RegexFind(Chars(search), Chars(d.name)))

\* the outcomes of a rejected promise of an async handler without try/catch, as
\* the versions of the framework and of the runtime decide: the rejection is
\* passed to the error handler, or the request gets no answer and the process
\* goes on, or the process exits
NoAnswer == "no response"
ProcessExited == "process exited"
Uncaught(op) ==
  {Reply(op, 500, "Internal server error"), Reply(op, 0, NoAnswer), Reply(op, 0, ProcessExited)}

\* GET /api/doctors: the query fails on a pattern that does not compile; v1
\* catches and answers 500, v2 has no try/catch
ListDoctors(specialty, search) ==
  /\ Idle
  /\ variant \in ServerJs
  /\ IF search # "" /\ ~RegexValid(Chars(search))
       THEN IF variant = "v1" THEN resp' = Reply("doctors", 500, "Server error")
            ELSE resp' \in Uncaught("doctors")
       ELSE resp' = [Reply("doctors", 200, "") EXCEPT
                       !.data = [kind |-> "doctors", specialty |-> specialty, search |-> search,
                                 items |-> FindDoctors(specialty, search)]]
  /\ UNCHANGED <<variant, appState, users, doctors, appointments, feedback, tokens, now, ticks, seedPc,
                 regPending>>

\* appState.doctors of the browser client
ClientDoctors ==
  SeedDoctorsV1 \o
    << Doc("Dr. Robert Martinez", "General Medicine", 45),
       Doc("Dr. Raj Kankane", "General Medicine", 45) >>

\* filterDoctors of the browser client: the search term is looked for in the
\* name and in the specialty
FilteredDoctors(specialty, search) ==
  LET searchTerm == LowerStr(Chars(search))
  IN SelectSeq(ClientDoctors, LAMBDA doctor :
       /\ \/ Includes(LowerStr(Chars(doctor.name)), searchTerm)
          \/ Includes(LowerStr(Chars(doctor.specialty)), searchTerm)
       /\ specialty = "" \/ doctor.specialty = specialty)

filterDoctors(specialty, search) ==
  /\ Idle
  /\ variant \in ServerJs
  /\ resp' = [Reply("filterDoctors", 200, "") EXCEPT
                !.data = [kind |-> "doctors", specialty |-> specialty, search |-> search,
                          items |-> FilteredDoctors(specialty, search)]]
  /\ UNCHANGED <<variant, appState, users, doctors, appointments, feedback, tokens, now, ticks, seedPc,
                 regPending>>

\* --------------------------------------------------- client login and signup
\* what a handler of the page shows: the text of its alert, "" when it shows none,
\* with the form values and appState as the handler found it
Alert(op, text, email, password) ==
  [Reply(op, 0, text) EXCEPT
     !.email = email, !.password = password,
     !.data = [kind |-> "client", before |-> appState]]

\* a logout click that leaves currentUser in place
handleAuthClickKeepingUser ==
  /\ Idle
  /\ IF appState.isLoggedIn
       THEN /\ appState' = [appState EXCEPT !.isLoggedIn = FALSE]
            /\ resp' = Alert("handleAuthClick", "Logged out successfully!", "", "")
       ELSE /\ appState' = appState
            /\ resp' = Alert("handleAuthClick", "", "", "")
  /\ UNCHANGED <<variant, users, doctors, appointments, feedback, tokens, now, ticks, seedPc,
                 regPending>>

\* handleAuthClick: the one button that logs out or opens the login dialog
handleAuthClick ==
  /\ Idle
  /\ IF appState.isLoggedIn
       THEN /\ appState' = [appState EXCEPT !.isLoggedIn = FALSE, !.currentUser = null]
            /\ resp' = Alert("handleAuthClick", "Logged out successfully!", "", "")
       ELSE /\ appState' = appState
            /\ resp' = Alert("handleAuthClick", "", "", "")
  /\ UNCHANGED <<variant, users, doctors, appointments, feedback, tokens, now, ticks, seedPc,
                 regPending>>

\* appState.users.find((u) => u.email === email && u.password === password): the
\* positions that match; find yields the first
FindLogin(email, password) ==
  {i \in 1..Len(appState.users) :
     appState.users[i].email = email /\ appState.users[i].password = password}

\* handleLogin
handleLogin(email, password) ==
  /\ Idle
  /\ IF FindLogin(email, password) # {}
       THEN /\ appState' = [appState EXCEPT
                              !.isLoggedIn = TRUE,
                              !.currentUser =
                                appState.users[CHOOSE i \in FindLogin(email, password) :
                                                 \A j \in FindLogin(email, password) : i <= j]]
            /\ resp' = Alert("handleLogin", "Login successful!", email, password)
       ELSE /\ appState' = appState
            /\ resp' = Alert("handleLogin", "Invalid email or password.", email, password)
  /\ UNCHANGED <<variant, users, doctors, appointments, feedback, tokens, now, ticks, seedPc,
                 regPending>>

\* appState.users.find((u) => u.email === email)
ClientEmailTaken(email) == \E i \in 1..Len(appState.users) : appState.users[i].email = email

\* the object handleSignup builds; joinDate is
\* new Date().toISOString().split("T")[0] on the day of the runs
newUser(name, email, password, phone) ==
  ClientUser(Len(appState.users) + 1, name, email, phone, "2025-06-01", password)

\* a signup that does not look for the email
handleSignupUnchecked(name, email, password, phone) ==
  /\ Idle
  /\ Len(appState.users) < MaxClientUsers
  /\ appState' = [users |-> Append(appState.users, newUser(name, email, password, phone)),
                  isLoggedIn |-> TRUE,
                  currentUser |-> newUser(name, email, password, phone)]
  /\ resp' = Alert("handleSignup", "Signup successful!", email, password)
  /\ UNCHANGED <<variant, users, doctors, appointments, feedback, tokens, now, ticks, seedPc,
                 regPending>>

\* handleSignup, in a run that stops at MaxClientUsers users
handleSignup(name, email, password, phone) ==
  /\ Idle
  /\ IF ClientEmailTaken(email)
       THEN /\ appState' = appState
            /\ resp' = Alert("handleSignup", "An account with this email already exists.",
                             email, password)
       ELSE /\ Len(appState.users) < MaxClientUsers
            /\ appState' = [users |-> Append(appState.users,
                                             newUser(name, email, password, phone)),
                            isLoggedIn |-> TRUE,
                            currentUser |-> newUser(name, email, password, phone)]
            /\ resp' = Alert("handleSignup", "Signup successful!", email, password)
  /\ UNCHANGED <<variant, users, doctors, appointments, feedback, tokens, now, ticks, seedPc,
                 regPending>>

\* the form values tried on the page
ClientEmails == {"john@example.com", "John@example.com", "sam@example.com", "amy@example.com"}
ClientPasswords == {"password123", "pw"}

\* ------------------------------------------------------------------- feedback
\* the ratings tried, in tenths: 0 for a rating that is missing or 0, 2.5, 3, 6
FeedbackRatings == {0, 25, 30, 60}
\* the comments tried; "" stands for a comment that is missing
FeedbackComments == {"", "Great"}

RatingMin == 10
RatingMax == 50

\* rating: { type: Number, min: 1, max: 5 } of the Feedback schema; the second
\* variant adds required: true to rating and to comment
FeedbackSchemaAccepts(rating, comment) ==
  /\ rating >= RatingMin /\ rating <= RatingMax
  /\ variant = "v2" => comment # ""

\* the outcomes of POST /api/feedback: v1 tests !rating || !comment, then
\* Feedback.create runs the schema validators and a failure lands in the catch
\* block; v2 calls Feedback.create without a test and without try/catch
FeedbackReplies(rating, comment) ==
  IF variant = "v1" /\ (rating = 0 \/ comment = "")
    THEN {Reply("submitFeedback", 400, "rating and comment required")}
  ELSE IF ~FeedbackSchemaAccepts(rating, comment)
    THEN IF variant = "v1" THEN {Reply("submitFeedback", 500, "Server error")}
         ELSE Uncaught("submitFeedback")
  ELSE {Reply("submitFeedback", 200, "")}

\* POST /api/feedback
SubmitFeedback(rating, comment) ==
  /\ Idle
  /\ variant \in ServerJs
  /\ \E r \in FeedbackReplies(rating, comment) :
       /\ resp' = [r EXCEPT !.data = [kind |-> "feedback", rating |-> rating,
                                       comment |-> comment]]
       /\ IF r.status = 200
            THEN /\ Len(feedback) < MaxFeedback
                 /\ feedback' = Append(feedback, [patient |-> "Ann", rating |-> rating,
                                                   comment |-> comment])
            ELSE feedback' = feedback
  /\ UNCHANGED <<variant, appState, users, doctors, appointments, tokens, now, ticks, seedPc, regPending>>

\* ------------------------------------------------------------------- specifications
Seed ==
  \/ SeedCountDoctors
  \/ SeedInsertDoctors
  \/ SeedCountUsers
  \/ SeedInsertUsers

LegacySeed ==
  \/ SeedCountFeedback
  \/ SeedInsertFeedback

\* the requests of all variants, served at one instant
Next ==
  \/ Seed
  \/ LegacySeed
  \/ ResponseSent
  \/ \E b \in RegisterBodies : RegisterCheck(b)
  \/ \E b \in regPending, k \in Keeps : RegisterCreate(b, k)
  \/ \E b \in LoginBodies, k \in Keeps : Login(b.email, b.password, k)
  \/ \E e \in LegacyEmails, p \in LegacyPasswords, k \in Keeps : LegacyLogin(e, p, k)
  \/ \E t \in tokens \cup {NoToken, ForgedRefresh}, k \in Keeps : Refresh(t, k)
  \/ \E h \in Headers, b \in BookBodies : Book(h, b)
  \/ \E h \in Headers, d \in {NoId, BookedDoctor}, dn \in LegacyDoctorNames : LegacyBook(h, d, dn)
  \/ \E h \in Headers, id \in {NoId} \cup AppointmentIds : Cancel(h, id)
  \/ \E h \in Headers, ep \in AdminReadEndpoints : AdminRead(h, ep)
  \/ \E h \in Headers, n \in DoctorNames, s \in DoctorSpecialties : CreateDoctor(h, n, s)

Spec == Init /\ [][Next]_vars

\* server.js with the clock running: the token lifetimes
InitClock == Init /\ variant \in ServerJs
NextClock ==
  \/ Seed
  \/ ResponseSent
  \/ \E d \in TickSteps : Tick(d)
  \/ \E b \in {c \in LoginBodies : c.email = AdminEmail}, k \in Keeps :
       Login(b.email, b.password, k)
  \/ \E t \in tokens \cup {NoToken, ForgedRefresh}, k \in Keeps : Refresh(t, k)
  \/ \E h \in Headers, id \in {NoId} \cup AppointmentIds : Cancel(h, id)
  \/ \E h \in Headers, ep \in AdminReadEndpoints : AdminRead(h, ep)

SpecClock == InitClock /\ [][NextClock]_vars

\* the one valid body registered in the runs about seeding and listing
ListRegisterBody == RegBody("Ann", "a@x.com", "1234567890", "secret1", "secret1")

\* the process stops, at any point, and is started again: the collections and the
\* tokens handed out stay, the requests in progress are gone, seedData starts over
Restart ==
  /\ seedPc' = "docs"
  /\ regPending' = {}
  /\ resp' = NoResp
  /\ UNCHANGED <<variant, appState, users, doctors, appointments, feedback, tokens, now, ticks>>

\* startups of server.js, with the requests that add users and doctors
NextStartup ==
  \/ Seed
  \/ Restart
  \/ ResponseSent
  \/ RegisterCheck(ListRegisterBody)
  \/ \E b \in regPending, k \in Keeps : RegisterCreate(b, k)
  \/ \E k \in Keeps : Login(AdminEmail, AdminPassword, k)
  \/ \E h \in Headers, n \in DoctorNames, sp \in DoctorSpecialties : CreateDoctor(h, n, sp)

SpecStartup == InitClock /\ [][NextStartup]_vars

\* the doctor list of server.js and of the browser client
NextDoctors ==
  \/ Seed
  \/ Restart
  \/ ResponseSent
  \/ \E sp \in SpecialtyParams, se \in SearchParams : ListDoctors(sp, se)
  \/ \E sp \in SpecialtyParams, se \in SearchParams : filterDoctors(sp, se)

SpecDoctors == InitClock /\ [][NextDoctors]_vars

\* create doctor in server.js with the ratings tried
NextDoctorAdmin ==
  \/ Seed
  \/ ResponseSent
  \/ RegisterCheck(ListRegisterBody)
  \/ \E b \in regPending, k \in Keeps : RegisterCreate(b, k)
  \/ \E k \in Keeps : Login(AdminEmail, AdminPassword, k)
  \/ \E h \in Headers, n \in DoctorNames, sp \in DoctorSpecialties \cup {""},
        r \in DoctorRatings : CreateDoctorRated(h, n, sp, r)

SpecDoctorAdmin == InitClock /\ [][NextDoctorAdmin]_vars

\* feedback in server.js
NextFeedback ==
  \/ Seed
  \/ Restart
  \/ ResponseSent
  \/ \E r \in FeedbackRatings, c \in FeedbackComments : SubmitFeedback(r, c)

SpecFeedback == InitClock /\ [][NextFeedback]_vars

\* register in server.js with bodies that carry keys the schema does not declare
RoleBodies ==
  { [name |-> "Bob", email |-> "b@x.com", phone |-> "1234567890", password |-> "secret1",
     confirmPassword |-> "secret1", role |-> "admin"],
    RegBody("Ann", "a@x.com", "1234567890", "secret1", "secret1"),
    RegBody("Ann", "a@x.com", "1234567890", "secret1", "secret2") }
NextRegister ==
  \/ Seed
  \/ ResponseSent
  \/ \E b \in RoleBodies : RegisterCheck(b)
  \/ \E b \in regPending, k \in Keeps : RegisterCreate(b, k)
  \/ \E b \in LoginBodies, k \in Keeps : Login(b.email, b.password, k)

SpecRegister == InitClock /\ [][NextRegister]_vars

\* booking and listing in server.js
NextBooking ==
  \/ Seed
  \/ ResponseSent
  \/ RegisterCheck(ListRegisterBody)
  \/ \E b \in regPending, k \in Keeps : RegisterCreate(b, k)
  \/ \E k \in Keeps : Login(AdminEmail, AdminPassword, k)
  \/ \E h \in Headers, b \in ListBodies : BookUpTo(h, b, MaxListed)
  \/ \E h \in Headers : ListMine(h)
  \/ \E h \in Headers : AdminRead(h, "stats")

SpecBooking == InitClock /\ [][NextBooking]_vars

\* no token and no appointment names a user that is gone
NoOrphan ==
  /\ \A t \in tokens : t.id \in UserIds
  /\ \A i \in AppointmentIds : appointments[i].patient \in UserIds

\* the newest User document is removed in the database. No route of the program
\* does this; it is the one way User.findById(req.user.id) of a verified token
\* returns null, the case the booking route tests for.
RemoveUser ==
  /\ Idle
  /\ seedPc = "done"
  /\ regPending = {}
  /\ Len(users) > 0
  /\ users' = SubSeq(users, 1, Len(users) - 1)
  /\ UNCHANGED <<variant, appState, doctors, appointments, feedback, tokens, now, ticks, seedPc,
                 regPending, resp>>

\* booking in server.js with users removed in the database; an _id is a position
\* here and a fresh ObjectId never equals a removed one, so no user is created
\* once a token or an appointment names a removed one
NextOrphan ==
  \/ Seed
  \/ ResponseSent
  \/ NoOrphan /\ RegisterCheck(ListRegisterBody)
  \/ \E b \in regPending, k \in Keeps : NoOrphan /\ RegisterCreate(b, k)
  \/ RemoveUser
  \/ \E h \in Headers, b \in ListBodies : BookUpTo(h, b, MaxListed)

SpecOrphan == InitClock /\ [][NextOrphan]_vars

\* the login and signup handlers of the page; the page holds its own state and
\* calls no server
NextClient ==
  \/ ResponseSent
  \/ handleAuthClick
  \/ \E e \in ClientEmails, p \in ClientPasswords : handleLogin(e, p)
  \/ \E e \in ClientEmails, p \in ClientPasswords : handleSignup("Sam", e, p, "555-0103")

SpecClient == Init /\ [][NextClient]_vars

\* the two servers of part_000
InitLegacy == variant \in PartVariants /\ EmptyStore
NextLegacy ==
  \/ variant = "v4" /\ Seed
  \/ variant = "v4" /\ LegacySeed
  \/ ResponseSent
  \/ \E b \in PartBodies : PartRegisterCheck(b)
  \/ \E b \in regPending, k \in Keeps : PartRegisterSave(b, k)
  \/ \E e \in LegacyEmails, p \in LegacyPasswords, k \in Keeps : LegacyLogin(e, p, k)
  \/ \E h \in AllHeaders, d \in {NoId, BookedDoctor}, dn \in LegacyDoctorNames :
       LegacyBook(h, d, dn)
  \/ \E h \in AllHeaders : OldListMine(h)

SpecLegacy == InitLegacy /\ [][NextLegacy]_vars

\* ===================================================================== claims
\* a User holds the stored form of the e-mail of register body b
EmailHeld(b) == \E i \in UserIds : users[i].email = Lower(b.email)
UniqueEmails == \A i, j \in UserIds : users[i].email = users[j].email => i = j

Registered(e, p) == \E i \in UserIds : users[i].email = Lower(e) /\ Compare(p, users[i].password)

\* C2: in every variant, a well-formed login request is answered 200 with an
\* access token and a refresh token if a User was registered with that email and
\* password, and 401 with no token otherwise.
C2_LoginContract ==
  resp.op = "login" /\ loginSchema(resp.email, resp.password) =>
    IF Registered(resp.email, resp.password)
      THEN resp.status = 200 /\ resp.access # NoToken /\ resp.refresh # NoToken
      ELSE resp.status = 401 /\ resp.access = NoToken /\ resp.refresh = NoToken

\* part_000 has answered a login with a wrong password for a seeded user
C2_Witness ==
  /\ variant = "v4"
  /\ resp.op = "login"
  /\ resp.email = "john@example.com"
  /\ resp.password = "secret1"
  /\ resp.status = 400
  /\ \E i \in UserIds : users[i].email = resp.email

\* C3: in server.js, for two well-formed login requests with the same password,
\* one for an email no User holds and one for a registered email whose password
\* is another, the responses are equal in status and body.
C3_LoginIndistinguishable ==
  variant \in ServerJs =>
    \A b1, b2 \in LoginBodies :
      /\ b1.password = b2.password
      /\ loginSchema(b1.email, b1.password) /\ loginSchema(b2.email, b2.password)
      /\ FindUserByEmail(b1.email) = {}
      /\ FindUserByEmail(b2.email) # {} /\ ~Registered(b2.email, b2.password)
      => LoginReply(b1.email, b1.password) = LoginReply(b2.email, b2.password)

\* a login with a wrong password for a registered email has just been answered,
\* while another email of the same request set is held by no User
C3_Witness ==
  /\ variant \in ServerJs
  /\ resp.op = "login"
  /\ resp.status = 401
  /\ FindUserByEmail(resp.email) # {}
  /\ \E b \in LoginBodies :
       /\ b.password = resp.password
       /\ IsEmail(b.email)
       /\ FindUserByEmail(b.email) = {}

\* minutes since the token was signed
Age(tok) == now - tok.iat

\* C4: in server.js an access token is let through by authenticate (and so by the
\* admin gate and the cancel route in front of which it stands) exactly while
\* fewer than 15 minutes have passed since it was signed, and is answered 401
\* afterwards; a refresh token is accepted by the refresh endpoint exactly while
\* fewer than 7 days have passed, and refused afterwards.
C4_TokenLifetimes ==
  \A t \in tokens :
    /\ t.cls = "access" =>
         /\ Age(t) < 15 => authenticate(Bearer(t)).status = 200
         /\ Age(t) >= 15 =>
              /\ authenticate(Bearer(t)).status = 401
              /\ AdminGate(Bearer(t)).status = 401
              /\ CancelReply(Bearer(t), NoId).status = 401
    /\ t.cls = "refresh" =>
         /\ Age(t) < 7 * 24 * 60 => RefreshReply(t).status = 200
         /\ Age(t) >= 7 * 24 * 60 => RefreshReply(t).status = 403

\* a refresh token has just been accepted at an age at which an access token
\* is refused, and a kept access token has run out
C4_Witness ==
  /\ resp.op = "refresh"
  /\ resp.status = 200
  /\ Age(resp.auth) >= 15
  /\ \E t \in tokens : t.cls = "access" /\ Age(t) >= 15

\* C5: a successful refresh returns an access token whose id and role are those
\* of the User the refresh token was issued to, and that token passes the
\* admin gate's role test exactly when that User is an admin.
C5_RefreshKeepsClaims ==
  resp.op = "refresh" /\ resp.status = 200 =>
    /\ resp.auth.id \in UserIds
    /\ resp.access.id = resp.auth.id
    /\ resp.access.role = users[resp.auth.id].role
    /\ adminOnly(resp.access).status = 200 <=> users[resp.auth.id].role = "admin"

\* v2 has refreshed the token of the admin, and the new access token has no role
C5_Witness ==
  /\ variant = "v2"
  /\ resp.op = "refresh"
  /\ resp.status = 200
  /\ users[resp.auth.id].role = "admin"
  /\ resp.access.role = "undefined"
  /\ adminOnly(resp.access).status = 403

\* C6: in every variant, a booking request by an authenticated caller with an
\* otherwise valid payload whose doctorId matches no Doctor is answered 404, and
\* the Appointment collection is as it was.
C6_UnknownDoctor404 ==
  /\ variant \in ServerJs =>
       \A h \in Headers, b \in BookBodies :
         authenticate(h).status = 200 /\ appointmentZ(b) /\ b.doctorId \notin DoctorIds =>
           BookReply(h, b).status = 404
  /\ variant = "v4" =>
       ( /\ resp.op = "book"
         /\ LegacyAuthenticate(resp.auth).status = 200
         /\ resp.id \notin DoctorIds
         => resp.status = 404 /\ resp.data = NoData )

\* part_000 has answered a booking by an authenticated caller that names no Doctor
C6_Witness ==
  /\ variant = "v4"
  /\ resp.op = "book"
  /\ LegacyAuthenticate(resp.auth).status = 200
  /\ resp.id \notin DoctorIds
  /\ Len(doctors) > 0
  /\ resp.status = 500

\* C7: in server.js the response of a successful booking carries the Appointment
\* just created, the last of the collection: its status is confirmed, its doctor
\* and patient are the requested Doctor and the caller, and its doctorName,
\* specialty and patientName are that Doctor's and that caller's.
C7_BookingCreatesConfirmed ==
  variant \in ServerJs /\ resp.op = "book" /\ resp.status = 200 =>
    LET a == resp.data.appointment
    IN /\ resp.data.id = Len(appointments)
       /\ appointments[resp.data.id] = a
       /\ a.status = "confirmed"
       /\ a.doctor = resp.id /\ a.doctor \in DoctorIds
       /\ a.patient = resp.auth.tok.id /\ a.patient \in UserIds
       /\ a.doctorName = doctors[a.doctor].name
       /\ a.specialty = doctors[a.doctor].specialty
       /\ a.patientName = users[a.patient].name

\* v2 has answered a successful booking with an Appointment whose status is pending
C7_Witness ==
  /\ variant = "v2"
  /\ resp.op = "book"
  /\ resp.status = 200
  /\ resp.data.appointment.status = "pending"
  /\ appointments[resp.data.id] = resp.data.appointment

\* the fields of an Appointment other than its status
Unstatused(appt) == [appt EXCEPT !.status = ""]

C9_StatusOnlyToCancelled ==
  [][ /\ Len(appointments') >= Len(appointments)
      /\ \A i \in AppointmentIds :
           appointments'[i].status # appointments[i].status =>
             /\ appointments[i].status \in {"pending", "confirmed"}
             /\ appointments'[i].status = "cancelled"
      /\ variant = "v1" =>
           \A h \in Headers, id \in AppointmentIds :
             /\ authenticate(h).status = 200
             /\ appointments[id].status = "cancelled"
             /\ (appointments[id].patient = h.tok.id \/ h.tok.role = "admin")
             => CancelReply(h, id).status = 200
    ]_vars

\* a cancel of an Appointment that was already cancelled has just succeeded
C9_Witness ==
  /\ resp.op = "cancel"
  /\ resp.status = 200
  /\ resp.data.found.status = "cancelled"
  /\ appointments[resp.id].status = "cancelled"

AdminOps == {"adminGate", "createDoctor", "stats", "appointments", "users", "feedback"}

\* C10: in server.js the admin gate answers 403 to every valid access token whose
\* role is not admin, on the read routes and on create doctor; a 403 of an admin
\* route carries no data and leaves users, doctors, appointments, feedback and
\* tokens as they were; and an admin route sends data or adds a Doctor only
\* for a token whose role is admin.
C10_AdminOnly ==
  [][ (variant \in ServerJs) =>
        /\ \A h \in Headers :
             authenticate(h).status = 200 /\ h.tok.role # "admin" =>
               /\ AdminGate(h).status = 403
               /\ \A n \in DoctorNames, sp \in DoctorSpecialties :
                    CreateDoctorReply(h, n, sp).status = 403
        /\ resp'.op \in AdminOps /\ resp'.status = 403 =>
             /\ resp'.data = NoData
             /\ UNCHANGED <<users, doctors, appointments, feedback, tokens>>
        /\ resp'.op \in AdminOps /\ resp'.data # NoData =>
             resp'.status = 200 /\ resp'.auth.tok.role = "admin"
        /\ resp'.op \in AdminOps /\ doctors' # doctors =>
             resp'.status = 200 /\ resp'.auth.tok.role = "admin"
    ]_vars

\* a patient's valid token has just been refused by an admin route
C10_Witness ==
  /\ resp.op \in AdminOps
  /\ resp.status = 403
  /\ resp.data = NoData
  /\ \E t \in tokens : authenticate(Bearer(t)).status = 200 /\ t.role = "patient"

\* the header is 'Bearer <token>' with an access token the server signed that has not run out
Proper(hdr) == hdr.scheme = "Bearer" /\ JwtVerify(hdr.tok, "access")

\* the answer of the middleware in front of book, list and cancel
GateReply(hdr) ==
  CASE variant \in ServerJs -> authenticate(hdr)
    [] variant = "v3" -> OldAuth(hdr)
    [] OTHER -> LegacyAuthenticate(hdr)

\* C11: a request to book, list or cancel whose Authorization header is missing,
\* is not of the form 'Bearer <token>', or carries a token that was forged or has
\* run out is answered 401 by the middleware, so that every success of these
\* routes was given to a proper header.
C11_Unauthenticated401 ==
  /\ \A h \in AllHeaders : ~Proper(h) => GateReply(h).status = 401
  /\ resp.op \in {"book", "list", "cancel"} /\ resp.status = 200 => Proper(resp.auth)

\* the first server of part_000 has listed appointments for a header without Bearer
C11_Witness ==
  /\ variant = "v3"
  /\ resp.op = "list"
  /\ resp.status = 200
  /\ resp.auth.scheme = "raw"
  /\ resp.auth.tok \in tokens

\* the appointments a list response returns to the caller
Listed == resp.data.items
ListAnswered == resp.op = "list" /\ resp.status = 200 /\ resp.auth.scheme = "Bearer"
ListedMine ==
  /\ \A i, j \in DOMAIN Listed : i # j => Listed[i] # Listed[j]
  /\ {Listed[i] : i \in DOMAIN Listed} =
       {a \in AppointmentIds : appointments[a].patient = resp.auth.tok.id}

\* C12 as stated: list mine returns exactly the appointments of the caller, the
\* one made last first.
C12_ListMineNewestFirst ==
  (variant \in ServerJs /\ ListAnswered) =>
    /\ ListedMine
    /\ \A i, j \in DOMAIN Listed : i < j => Listed[i] > Listed[j]

\* C12 amended: list mine returns exactly the appointments of the caller, never
\* one of another user, ordered by the date of the appointment, latest date
\* first; in the first variant appointments of one date come the one made last first.
C12_ListMineByDate ==
  (variant \in ServerJs /\ ListAnswered) =>
    /\ ListedMine
    /\ \A i, j \in DOMAIN Listed : i < j =>
         \/ DateRank(appointments[Listed[i]].date) > DateRank(appointments[Listed[j]].date)
         \/ /\ DateRank(appointments[Listed[i]].date) = DateRank(appointments[Listed[j]].date)
            /\ variant = "v1" => Listed[i] > Listed[j]

\* a caller with two appointments of different dates got both while another
\* user has an appointment too
C12_Witness ==
  /\ variant \in ServerJs
  /\ ListAnswered
  /\ Len(Listed) = 2
  /\ appointments[Listed[1]].date # appointments[Listed[2]].date
  /\ \E a \in AppointmentIds : appointments[a].patient # resp.auth.tok.id

\* the plaintext passwords of the seed data and of the requests tried
SubmittedPasswords ==
  {AdminPassword, LegacyPassword} \cup LegacyPasswords
    \cup {b.password : b \in RegisterBodies} \cup {b.password : b \in LoginBodies}

\* C13: the password field of every stored User, seeded or registered, is the
\* bcrypt hash of a password and not the password; the user object of a register
\* or login response and the users of the admin user listing have no password field.
C13_PasswordsHidden ==
  /\ \A i \in UserIds : users[i].password \in {Hash(p) : p \in SubmittedPasswords}
  /\ resp.op \in {"register", "login"} /\ resp.status = 200 =>
       /\ resp.data.kind = "user"
       /\ "password" \notin DOMAIN resp.data.user
  /\ resp.op = "users" /\ resp.status = 200 =>
       \A i \in DOMAIN resp.data.items : "password" \notin DOMAIN resp.data.items[i]

\* the admin has listed the users while a registered patient is stored
C13_Witness ==
  /\ resp.op = "users"
  /\ resp.status = 200
  /\ Len(resp.data.items) > 0
  /\ \E i \in UserIds : users[i].role = "patient" /\ users[i].password = Hash("secret1")

\* a register request has just created its User and been answered with `status`
RegisterCreated(status) ==
  /\ resp.status = status
  /\ resp.id = Len(users)
  /\ Cardinality({i \in UserIds : users[i].email = resp.email}) = 1
  /\ users[resp.id].role = "patient"
  /\ users[resp.id].email = resp.email
  /\ resp.data.user.email = resp.email
  /\ resp.access \in tokens \cup {SignAccess(resp.id, "patient")}
  /\ resp.access # NoToken
  /\ resp.refresh # NoToken

PartSchema(b) == IF variant = "v3" THEN signupSchema(b) ELSE PartUserSchemaAccepts(b)

\* C15: on register, login and book appointment a payload that violates the
\* schema of the endpoint is answered 400 by the validation, before the handler
\* reads or writes a collection: in server.js the handler's first check answers
\* 400 for every violating body (for book, of an authenticated caller), and in
\* part_000 a register request whose body violates the schema is answered 400.
C15_InvalidRejected400 ==
  /\ variant \in ServerJs =>
       /\ \A b \in RegisterBodies \cup RoleBodies :
            ~registerSchema(b) => RegisterReply(b) = [status |-> 400, msg |-> "ZodError"]
       /\ \A b \in LoginBodies :
            ~loginSchema(b.email, b.password) => LoginReply(b.email, b.password).status = 400
       /\ \A h \in Headers, b \in BookBodies :
            authenticate(h).status = 200 /\ ~appointmentZ(b) =>
              BookReply(h, b) = [status |-> 400, msg |-> "ZodError"]
  /\ variant \in PartVariants /\ resp.op = "register" =>
       \A b \in PartBodies :
         ~PartSchema(b) /\ b.email = resp.email /\ b.password = resp.password =>
           resp.status = 400 /\ resp.msg = "ValidationError"

\* the second server of part_000 has answered a register request without a name
\* after looking the email up and trying to save the User
C15_Witness ==
  /\ variant = "v4"
  /\ resp.op = "register"
  /\ resp.status = 500
  /\ resp.email = "b@x.com"
  /\ \E b \in PartBodies : b.email = resp.email /\ b.name = ""

\* how often a document occurs in a collection
Count(q, d) == Cardinality({i \in DOMAIN q : q[i] = d})
Admins == {i \in UserIds : users[i].email = AdminEmail}

\* the store holds the result of an earlier seed: every seeded doctor and the administrator
StoreSeeded ==
  /\ \A i \in DOMAIN SeedDoctors : Count(doctors, SeedDoctors[i]) >= 1
  /\ Admins # {}

\* C16: a step of seedData on a store that holds the result of an earlier seed
\* leaves the users and the doctors as they are, and in such a store, after
\* any number of startups, each seeded doctor is there once and there is one
\* administrator account, whose role is admin.
C16_SeedIdempotent ==
  /\ [](StoreSeeded =>
          /\ \A i \in DOMAIN SeedDoctors : Count(doctors, SeedDoctors[i]) = 1
          /\ Cardinality(Admins) = 1
          /\ \A i \in Admins : users[i].role = "admin")
  /\ [][StoreSeeded /\ Seed => UNCHANGED <<users, doctors>>]_vars

\* the seed routine of a later startup has counted the doctors of a seeded store
\* and gone on without inserting
C16_Witness ==
  /\ StoreSeeded
  /\ seedPc = "users"
  /\ Len(doctors) = Len(SeedDoctors)

AdminExists == \E i \in UserIds : users[i].email = AdminEmail /\ users[i].role = "admin"

\* C17: once the seed routine of server.js has finished, a User with email
\* admin@medicare.com and role admin exists, whatever requests were served
\* while it ran.
C17_AdminAfterSeed == (variant \in ServerJs /\ seedPc = "done") => AdminExists

\* the seed routine has finished in a store whose only user is a patient who
\* registered while it ran
C17_Witness ==
  /\ variant \in ServerJs
  /\ seedPc = "done"
  /\ Len(users) = 1
  /\ users[1].role = "patient"
  /\ Len(doctors) = Len(SeedDoctors)

\* what the claim says list doctors returns, of the list q: the doctors whose
\* specialty is the parameter and whose name contains the search string,
\* letters compared without case
Matching(q, specialty, search) ==
  SelectSeq(q, LAMBDA d :
    /\ specialty # "" => d.specialty = specialty
    /\ search # "" => Includes(LowerStr(Chars(d.name)), LowerStr(Chars(search))))

\* C18: the doctors returned by GET /api/doctors and shown by filterDoctors are
\* exactly those of the list that satisfy every supplied filter: specialty
\* equal to the parameter, name containing the search string without regard to
\* case; all of them when no parameter is supplied.
C18_DoctorsFiltered ==
  /\ resp.op = "doctors" /\ resp.status = 200 =>
       resp.data.items = Matching(doctors, resp.data.specialty, resp.data.search)
  /\ resp.op = "filterDoctors" =>
       resp.data.items = Matching(ClientDoctors, resp.data.specialty, resp.data.search)

\* the server has returned a doctor for a search string that her name does not contain
C18_Witness ==
  /\ resp.op = "doctors"
  /\ resp.status = 200
  /\ resp.data.search = "j.hn"
  /\ Len(resp.data.items) = 1
  /\ resp.data.items[1].name = "Dr. Sarah Johnson"

\* C19: every request ends with a response, a fault of the persistence layer is
\* answered 500 with a generic message, and no request ends the process.
C19_EveryRequestAnswered ==
  /\ resp.op # "none" => resp.status \in 100..599
  /\ resp.msg # ProcessExited
  /\ resp.op = "doctors" /\ resp.status # 200 =>
       resp.status = 500 /\ resp.msg \in {"Server error", "Internal server error"}

\* the second variant of server.js has exited on a list doctors request
C19_Witness ==
  /\ variant = "v2"
  /\ resp.op = "doctors"
  /\ resp.status = 0
  /\ resp.msg = ProcessExited
  /\ doctors # <<>>

\* C20: a refresh of server.js answered 200 returns an access token signed at
\* that moment for the user of the refresh token and no refresh token; the
\* refresh token submitted stays signed and, until it runs out, is accepted
\* again, however often it was used; and a refresh request writes to no
\* collection and revokes no token.
C20_RefreshKeepsToken ==
  /\ [](resp.op = "refresh" /\ resp.status = 200 =>
          /\ resp.refresh = NoToken
          /\ resp.access.cls = "access"
          /\ resp.access.id = resp.auth.id
          /\ resp.access.iat = now
          /\ resp.access.exp = now + AccessTTL
          /\ resp.auth \in tokens
          /\ RefreshReply(resp.auth).status = 200)
  /\ [][resp'.op = "refresh" /\ resp.op = "none" =>
          /\ UNCHANGED <<users, doctors, appointments, feedback>>
          /\ tokens \subseteq tokens']_vars

\* the second variant has refreshed with a token that was used before: an access
\* token of an earlier refresh is still held, 15 minutes or more have passed
C20_Witness ==
  /\ variant = "v2"
  /\ resp.op = "refresh"
  /\ resp.status = 200
  /\ now >= AccessTTL
  /\ \E a \in tokens :
       /\ a.cls = "access"
       /\ a.role = "undefined"
       /\ a.id = resp.auth.id
       /\ a.iat < resp.access.iat
       /\ a.iat >= resp.auth.iat

\* the routes behind authenticate whose success records the header
Protected == {"book", "list", "cancel", "createDoctor", "stats", "appointments", "users", "feedback"}

\* C21: in server.js a refresh token sent as the bearer token of a protected route
\* is answered 401 by authenticate, on book, cancel and the admin routes alike,
\* and an access token sent to the refresh endpoint is answered 403; a protected
\* route succeeds only for an access token and refresh only for a refresh token.
C21_TokenClasses ==
  variant \in ServerJs =>
    /\ \A t \in tokens : t.cls = "refresh" =>
         /\ authenticate(Bearer(t)).status = 401
         /\ AdminGate(Bearer(t)).status = 401
         /\ \A b \in BookBodies : BookReply(Bearer(t), b).status = 401
         /\ \A id \in {NoId} \cup AppointmentIds : CancelReply(Bearer(t), id).status = 401
    /\ \A t \in tokens : t.cls = "access" => RefreshReply(t).status = 403
    /\ resp.op \in Protected /\ resp.status = 200 => resp.auth.tok.cls = "access"
    /\ resp.op = "refresh" /\ resp.status = 200 => resp.auth.cls = "refresh"

\* a request was refused 401 while the client held a refresh token and an
\* access token, neither run out
C21_Witness ==
  /\ variant \in ServerJs
  /\ resp.status = 401
  /\ resp.op \in {"book", "cancel", "adminGate"}
  /\ \E t \in tokens : t.cls = "refresh" /\ ~Expired(t) /\ authenticate(Bearer(t)).status = 401
  /\ \E t \in tokens : t.cls = "access" /\ ~Expired(t) /\ RefreshReply(t).status = 403

\* a rating in tenths is an integer between 1 and 5
IntegerRating(r) == r \in {10, 20, 30, 40, 50}

\* C22: every Feedback stored has an integer rating between 1 and 5, and a
\* submit feedback whose rating is missing, not an integer or out of range, or
\* whose comment is missing, is answered 400 and stores nothing.
C22_FeedbackValidated ==
  /\ \A i \in DOMAIN feedback : IntegerRating(feedback[i].rating)
  /\ resp.op = "submitFeedback"
       /\ (~IntegerRating(resp.data.rating) \/ resp.data.comment = "") => resp.status = 400

\* the first variant has stored a feedback whose rating is 2.5
C22_Witness ==
  /\ variant = "v1"
  /\ resp.op = "submitFeedback"
  /\ resp.status = 200
  /\ resp.data.rating = 25
  /\ feedback # <<>>
  /\ feedback[Len(feedback)].rating = 25

\* C23: every Doctor stored, seeded or created by the admin, has a rating within
\* 0 to 5 (0 to 50 in tenths), and create doctor by an admin without name or
\* without specialty is answered 400.
C23_DoctorRatings ==
  /\ \A i \in DoctorIds : doctors[i].rating >= 0 /\ doctors[i].rating <= 50
  /\ variant = "v1" =>
       \A h \in Headers, n \in DoctorNames, sp \in DoctorSpecialties \cup {""} :
         AdminGate(h).status = 200 /\ (n = "" \/ sp = "") =>
           CreateDoctorReply(h, n, sp).status = 400

\* the admin has created a doctor whose rating is 9
C23_Witness ==
  /\ variant = "v1"
  /\ resp.op = "createDoctor"
  /\ resp.status = 200
  /\ resp.data.doctor.rating = 90
  /\ doctors[Len(doctors)].rating = 90

\* C24: the three counts of an admin stats response are the number of Users of
\* role patient, the number of Appointments and the number of Doctors of the
\* store the request was served on, and serving it changes no collection and no token.
C24_StatsCounts ==
  /\ [](resp.op = "stats" /\ resp.status = 200 =>
          /\ resp.data.totalUsers = Cardinality({i \in UserIds : users[i].role = "patient"})
          /\ resp.data.totalAppointments = Cardinality(AppointmentIds)
          /\ resp.data.totalDoctors = Cardinality(DoctorIds))
  /\ [][resp'.op = "stats" /\ resp.op = "none" =>
          UNCHANGED <<users, doctors, appointments, feedback, tokens, seedPc, regPending>>]_vars

\* the admin has read the statistics of a store with one patient beside the
\* admin, an appointment and the seeded doctors
C24_Witness ==
  /\ resp.op = "stats"
  /\ resp.status = 200
  /\ resp.data.totalUsers = 1
  /\ Len(users) = 2
  /\ resp.data.totalAppointments >= 1
  /\ resp.data.totalDoctors >= 2

\* the register response of a request that passed the existence check and whose
\* User.create was refused by the unique index
LostRace == resp.op = "register" /\ resp.status # 200 /\ resp.msg = DuplicateKeyMsg

\* C25: when two register requests of server.js for one unused email both pass
\* the existence check before either inserts, at most one User of that email is
\* created and the request that loses is answered 409, not 500.
C25_RaceLoser409 ==
  variant \in ServerJs =>
    /\ UniqueEmails
    /\ LostRace => resp.status = 409

\* the first variant has answered 500 to the loser of a race for a@x.com, the
\* winner's User being the only one of that email
C25_Witness ==
  /\ variant = "v1"
  /\ LostRace
  /\ resp.status = 500
  /\ Cardinality({i \in UserIds : users[i].email = "a@x.com"}) = 1

\* the booking route has found no User for the id of the verified token
PatientMissing == resp.op = "book" /\ resp.msg = "Patient not found"

\* a refused booking stores nothing
BookRefusedStoresNothing ==
  [][resp.op = "none" /\ resp'.op = "book" /\ resp'.status # 200
       => appointments' = appointments]_vars

\* C26: in server.js, book appointment with a valid access token whose user id
\* matches no User is answered 404, and the appointment of every booked response
\* names a patient that is a User at that moment.
C26_MissingPatient404 ==
  variant \in ServerJs =>
    /\ PatientMissing => resp.status = 404
    /\ resp.op = "book" /\ resp.status = 200 =>
         /\ resp.data.appointment.patient \in UserIds
         /\ resp.data.appointment.patientName = users[resp.data.appointment.patient].name

\* the second variant has answered a booking under the token of a removed user
\* with 400, while a booking made before the removal is still stored
C26_Witness ==
  /\ variant = "v2"
  /\ PatientMissing
  /\ resp.status = 400
  /\ \E i \in AppointmentIds : appointments[i].patient \notin UserIds

\* C27: in server.js no step removes an Appointment, and a step changes a stored
\* Appointment only when it is an accepted cancel, which changes nothing but
\* the status; doctorName, specialty and patientName stay as booked.
C27_AppointmentFrame ==
  [][(variant \in ServerJs) =>
       /\ Len(appointments') >= Len(appointments)
       /\ \A i \in AppointmentIds :
            \/ appointments'[i] = appointments[i]
            \/ /\ resp'.op = "cancel" /\ resp'.status = 200 /\ resp'.id = i
               /\ appointments'[i] = [appointments[i] EXCEPT !.status = "cancelled"]
               /\ \A j \in AppointmentIds \ {i} : appointments'[j] = appointments[j]]_vars

\* a doctor has been created after an appointment was booked and cancelled, and
\* the appointment still carries the names copied at booking
C27_Witness ==
  /\ variant = "v1"
  /\ resp.op = "createDoctor" /\ resp.status = 200
  /\ Len(users) >= 2
  /\ \E i \in AppointmentIds :
       /\ appointments[i].status = "cancelled"
       /\ appointments[i].doctorName = doctors[appointments[i].doctor].name
       /\ appointments[i].patientName = users[appointments[i].patient].name

\* appointments i and j are for one doctor and one date; every body of ListBodies
\* asks for the same time
SameSlot(i, j) ==
  /\ appointments[i].doctor = appointments[j].doctor
  /\ appointments[i].date = appointments[j].date

CurrentUserIsMember ==
  /\ appState.currentUser # null
  /\ \E i \in 1..Len(appState.users) : appState.users[i] = appState.currentUser

\* appState as the handler that has just shown its alert found it
Before == resp.data.before

\* C29: in the page, isLoggedIn is true exactly when currentUser is a non-null
\* member of appState.users; a login whose email and password match no user
\* changes neither field; handleAuthClick while logged in sets them to false and
\* null.
C29_LoginState ==
  /\ appState.isLoggedIn <=> CurrentUserIsMember
  /\ ~appState.isLoggedIn => appState.currentUser = null
  /\ resp.op = "handleLogin"
       /\ (\A i \in 1..Len(Before.users) :
             Before.users[i].email # resp.email \/ Before.users[i].password # resp.password)
       => /\ appState.isLoggedIn = Before.isLoggedIn
          /\ appState.currentUser = Before.currentUser
  /\ resp.op = "handleAuthClick" /\ Before.isLoggedIn
       => ~appState.isLoggedIn /\ appState.currentUser = null

\* a user who signed up is logged in and has just had a login refused that names
\* an existing email with a wrong password
C29_Witness ==
  /\ resp.op = "handleLogin"
  /\ resp.msg = "Invalid email or password."
  /\ resp.email = "john@example.com"
  /\ appState.isLoggedIn
  /\ appState.currentUser.id = 3

\* C30: in the page, handleSignup with an email that is in appState.users changes
\* nothing of the users and of the login state; with any other email it appends
\* one user and logs that user in; the emails and the ids of appState.users are
\* pairwise distinct.
C30_SignupUnique ==
  /\ resp.op = "handleSignup" =>
       IF \E i \in 1..Len(Before.users) : Before.users[i].email = resp.email
         THEN appState = Before
         ELSE /\ Len(appState.users) = Len(Before.users) + 1
              /\ SubSeq(appState.users, 1, Len(Before.users)) = Before.users
              /\ appState.users[Len(appState.users)].email = resp.email
              /\ appState.isLoggedIn
              /\ appState.currentUser = appState.users[Len(appState.users)]
  /\ \A i, j \in 1..Len(appState.users) :
       i # j => /\ appState.users[i].email # appState.users[j].email
                /\ appState.users[i].id # appState.users[j].id

\* after two signups, a third with the email of the first has been refused while
\* the second user stays logged in
C30_Witness ==
  /\ resp.op = "handleSignup"
  /\ resp.msg = "An account with this email already exists."
  /\ Len(appState.users) = 4
  /\ resp.email = appState.users[3].email
  /\ appState.currentUser = appState.users[4]

====
